---- MODULE Spec2Model ----
(***************************************************************************)
(* State-machine model of the MEV execution coordinator of MevTracker.     *)
(*                                                                         *)
(* Units.  ETH amounts are integers in units of 0.0001 ETH (the four       *)
(* decimals the generator produces) and GBP amounts are integers in units  *)
(* of 0.0001 GBP, so that profitGbp = profitEth * ethToGbpRate is exact.   *)
(* Floating-point rounding of the JavaScript numbers is not modelled.      *)
(*                                                                         *)
(* Atomicity.  The server is a single-threaded event loop: the code that   *)
(* runs between two awaits is one atomic step.  Every action below is one  *)
(* store operation together with the synchronous continuation that follows *)
(* it, up to the point where the next store operation or timer is issued.  *)
(***************************************************************************)
EXTENDS Integers, Sequences, FiniteSets, Bags, TLC

VARIABLES
    mevManager,        \* the singleton MevExecutionManager (routes.ts:90)
    now,               \* the clock read by new Date()
    opportunities,     \* the opportunities table, in `identified` order
    nextOpportunityId, \* the serial primary key of the opportunities table
    transactions,      \* the transactions rows inserted since process start
    mempoolActivity,   \* the mempool_activity rows inserted since process start
    botStats,          \* the singleton bot_stats row
    loops,             \* the bag of live executeOpportunitiesUntilTarget invocations
    requests,          \* the POST /api/execute-opportunity/:id requests
    response,          \* the last response sent by /api/mev/start, stop, status
    recorded,          \* history: the amounts given to recordProfit since the
                       \* last accepted startExecution
    faults,            \* history: the number of store calls that have failed
    executor           \* the browser's MevExecutor singleton (mev-executor.ts:257)

vars == <<mevManager, now, opportunities, nextOpportunityId, transactions,
          mempoolActivity, botStats, loops, requests, response, recorded,
          faults, executor>>

store == <<opportunities, nextOpportunityId, transactions, mempoolActivity,
           botStats>>

----------------------------------------------------------------------------
(* Bounds of the model                                                     *)

MaxStarts == 2        \* accepted /api/mev/start requests (one loop each)
MaxOpportunities == 2 \* opportunity rows ever inserted
MaxRequests == 1      \* manual execute-opportunity requests
MaxFaults == 1        \* store calls that fail
MaxListLen == 4       \* length of the lists the selection rule is tried on

(* Program constants                                                       *)

DefaultTargetProfit == 200000   \* targetProfit = 20 (GBP), in 0.0001 GBP
ethToGbpRate == 2650

NoDate == 0                     \* startTime undefined

(* The targetProfit argument of startExecution: req.body?.targetProfit is   *)
(* either undefined or a number.                                            *)
Undefined == [supplied |-> FALSE, value |-> 0]
Number(n) == [supplied |-> TRUE, value |-> n]
TargetArguments == {Undefined, Number(0), Number(-100000), Number(500000)}

(* JavaScript truthiness of an optional number: undefined and 0 are falsy. *)
Truthy(v) == v.supplied /\ v.value # 0

----------------------------------------------------------------------------
(* MevExecutionManager                                                     *)

PercentComplete(profit, targetProfit) ==
    IF targetProfit > 0 THEN (profit * 100) \div targetProfit ELSE 0

getStats(self) ==
    [isRunning |-> self.isRunning,
     profit |-> self.profit,
     transactions |-> self.transactions,
     startTime |-> self.startTime,
     targetProfit |-> self.targetProfit,
     percentComplete |-> PercentComplete(self.profit, self.targetProfit)]

NoStats == [isRunning |-> FALSE, profit |-> 0, transactions |-> 0,
            startTime |-> NoDate, targetProfit |-> 0, percentComplete |-> 0]

(* Each method is a function from the object's state (and arguments) to    *)
(* the object's new state `self` and the returned value `ret`.             *)

startExecution_noGuard(self, targetProfit, date) ==
    LET s1 == [self EXCEPT !.isRunning = TRUE, !.profit = 0,
                           !.transactions = 0, !.startTime = date]
        s2 == IF Truthy(targetProfit)
              THEN [s1 EXCEPT !.targetProfit = targetProfit.value] ELSE s1
    IN  [self |-> s2,
         ret |-> [success |-> TRUE, message |-> "Started MEV execution",
                  startTime |-> date, stats |-> NoStats]]

startExecution_keepTotals(self, targetProfit, date) ==
    IF self.isRunning
    THEN [self |-> self,
          ret |-> [success |-> FALSE, message |-> "Execution already running",
                   startTime |-> NoDate, stats |-> NoStats]]
    ELSE LET s1 == [self EXCEPT !.isRunning = TRUE, !.startTime = date]
             s2 == IF Truthy(targetProfit)
                   THEN [s1 EXCEPT !.targetProfit = targetProfit.value] ELSE s1
         IN  [self |-> s2,
              ret |-> [success |-> TRUE, message |-> "Started MEV execution",
                       startTime |-> date, stats |-> NoStats]]

startExecution(self, targetProfit, date) ==
    IF self.isRunning
    THEN [self |-> self,
          ret |-> [success |-> FALSE, message |-> "Execution already running",
                   startTime |-> NoDate, stats |-> NoStats]]
    ELSE LET s1 == [self EXCEPT !.isRunning = TRUE, !.profit = 0,
                                !.transactions = 0, !.startTime = date]
             s2 == IF Truthy(targetProfit)
                   THEN [s1 EXCEPT !.targetProfit = targetProfit.value] ELSE s1
         IN  [self |-> s2,
              ret |-> [success |-> TRUE, message |-> "Started MEV execution",
                       startTime |-> date, stats |-> NoStats]]

stopExecution_resets(self) ==
    IF ~self.isRunning
    THEN [self |-> self,
          ret |-> [success |-> FALSE,
                   message |-> "No execution currently running",
                   startTime |-> NoDate, stats |-> NoStats]]
    ELSE LET s1 == [self EXCEPT !.isRunning = FALSE, !.profit = 0,
                                !.transactions = 0]
         IN  [self |-> s1,
              ret |-> [success |-> TRUE, message |-> "Stopped MEV execution",
                       startTime |-> NoDate, stats |-> getStats(s1)]]

stopExecution_noGuard(self) ==
    LET s1 == [self EXCEPT !.isRunning = FALSE]
    IN  [self |-> s1,
         ret |-> [success |-> TRUE, message |-> "Stopped MEV execution",
                  startTime |-> NoDate, stats |-> getStats(s1)]]

stopExecution(self) ==
    IF ~self.isRunning
    THEN [self |-> self,
          ret |-> [success |-> FALSE,
                   message |-> "No execution currently running",
                   startTime |-> NoDate, stats |-> NoStats]]
    ELSE LET s1 == [self EXCEPT !.isRunning = FALSE]
         IN  [self |-> s1,
              ret |-> [success |-> TRUE, message |-> "Stopped MEV execution",
                       startTime |-> NoDate, stats |-> getStats(s1)]]

recordProfit_subtracts(self, amount) ==
    LET p == self.profit - amount
        t == self.transactions + 1
        targetReached == p >= self.targetProfit
        s1 == [self EXCEPT !.profit = p, !.transactions = t]
        s2 == IF targetReached THEN [s1 EXCEPT !.isRunning = FALSE] ELSE s1
    IN  [self |-> s2,
         ret |-> [success |-> TRUE, targetReached |-> targetReached,
                  currentProfit |-> p, transactions |-> t]]

recordProfit_keepRunning(self, amount) ==
    LET p == self.profit + amount
        t == self.transactions + 1
        targetReached == p >= self.targetProfit
        s1 == [self EXCEPT !.profit = p, !.transactions = t]
    IN  [self |-> s1,
         ret |-> [success |-> TRUE, targetReached |-> targetReached,
                  currentProfit |-> p, transactions |-> t]]

recordProfit_overwrite(self, amount) ==
    LET p == amount
        t == self.transactions + 1
        targetReached == p >= self.targetProfit
        s1 == [self EXCEPT !.profit = p, !.transactions = t]
        s2 == IF targetReached THEN [s1 EXCEPT !.isRunning = FALSE] ELSE s1
    IN  [self |-> s2,
         ret |-> [success |-> TRUE, targetReached |-> targetReached,
                  currentProfit |-> p, transactions |-> t]]

recordProfit(self, amount) ==
    LET p == self.profit + amount
        t == self.transactions + 1
        targetReached == p >= self.targetProfit
        s1 == [self EXCEPT !.profit = p, !.transactions = t]
        s2 == IF targetReached THEN [s1 EXCEPT !.isRunning = FALSE] ELSE s1
    IN  [self |-> s2,
         ret |-> [success |-> TRUE, targetReached |-> targetReached,
                  currentProfit |-> p, transactions |-> t]]

NoResult == [success |-> FALSE, targetReached |-> FALSE,
             currentProfit |-> 0, transactions |-> 0]

----------------------------------------------------------------------------
(* The store (DatabaseStorage) and the values written to it                *)

NoOpportunity ==
    [id |-> 0, type |-> "", pairs |-> "", estimatedProfitEth |-> 0,
     estimatedGasCostEth |-> 0, isExecutable |-> FALSE]

Opportunity(id, o) ==
    [id |-> id, type |-> o.type, pairs |-> o.pairs,
     estimatedProfitEth |-> o.estimatedProfitEth,
     estimatedGasCostEth |-> o.estimatedGasCostEth,
     isExecutable |-> o.isExecutable]

InsertOpportunity(type, pairs, profit, gasCost, executable) ==
    [type |-> type, pairs |-> pairs, estimatedProfitEth |-> profit,
     estimatedGasCostEth |-> gasCost, isExecutable |-> executable]

(* Samples of what generateRandomOpportunity can produce: profit in        *)
(* 0.0080..0.0450, gas cost in 0.0030..0.0160, isExecutable always true.   *)
GeneratedOpportunities ==
    {InsertOpportunity("DEX", "USDT(Uniswap) -> USDT(SushiSwap)", 100, 30, TRUE)}

(* Samples of what a client can insert through POST /api/opportunities.    *)
PostedOpportunities ==
    {InsertOpportunity("Triangular", "ETH -> USDT -> DAI -> ETH", -8, 45, FALSE),
     InsertOpportunity("Triangular", "ETH -> USDT -> DAI -> ETH", -8, 45, TRUE)}

addOpportunity(table, id, o) == Append(table, Opportunity(id, o))

deleteOpportunity(table, id) == SelectSeq(table, LAMBDA o : o.id # id)

InsertTransaction_netProfit(opp) ==
    [type |-> opp.type, pairs |-> opp.pairs,
     profitEth |-> opp.estimatedProfitEth - opp.estimatedGasCostEth,
     gasCostEth |-> opp.estimatedGasCostEth,
     status |-> "Confirmed",
     opportunityId |-> opp.id]

InsertTransaction(opp) ==
    [type |-> opp.type, pairs |-> opp.pairs,
     profitEth |-> opp.estimatedProfitEth,
     gasCostEth |-> opp.estimatedGasCostEth,
     status |-> "Confirmed",
     opportunityId |-> opp.id]   \* history: the opportunity it came from

ExecutionActivity(opp) == [type |-> "execution", opportunityId |-> opp.id]

(* The transactions and mempool_activity tables are only ever inserted     *)
(* into and counted here: a table is the bag of its rows (the serial id    *)
(* and the timestamp of a row are left out).                               *)
addTransaction(table, transaction) == table (+) SetToBag({transaction})

addMempoolActivity(table, activity) == table (+) SetToBag({activity})

(* The bot_stats row as seeded by initializeData: 3.45 ETH, 28            *)
(* transactions, 0.78 ETH of gas, success rate 92.5 (in tenths of a        *)
(* percent).                                                               *)
InitialBotStats ==
    [totalProfitEth |-> 34500, totalTransactions |-> 28,
     totalGasSpentEth |-> 7800, successRate |-> 925]

----------------------------------------------------------------------------
(* Selection of the best opportunity (routes.ts:182-190)                   *)

Net(o) == o.estimatedProfitEth - o.estimatedGasCostEth

compareFn_ascending(a, b) == Net(a) - Net(b)

compareFn(a, b) == Net(b) - Net(a)

(* Array.prototype.sort is a stable sort: an element is placed after every *)
(* element that the comparator does not order after it.                    *)
insert(sorted, x) ==
    LET i == Cardinality({j \in 1..Len(sorted) : compareFn(sorted[j], x) <= 0})
    IN  SubSeq(sorted, 1, i) \o <<x>> \o SubSeq(sorted, i + 1, Len(sorted))

RECURSIVE sort(_)
sort(arr) ==
    IF arr = <<>> THEN <<>>
    ELSE insert(sort(SubSeq(arr, 1, Len(arr) - 1)), arr[Len(arr)])

executable_all(opps) == opps

executable(opps) == SelectSeq(opps, LAMBDA o : o.isExecutable)

----------------------------------------------------------------------------
(* Initial state: the manager as constructed (routes.ts:25-29), the store  *)
(* with no opportunity rows and the seeded bot_stats row.                  *)

(* MevExecutor as constructed (mev-executor.ts:39-59): the target is 20    *)
(* GBP and the rate 2650 GBP per ETH.  started is history: the number of   *)
(* start() calls that have passed the isRunning guard; calls is the bag of *)
(* start() invocations that have not returned.                             *)
NewExecutor ==
    [isRunning |-> FALSE, targetProfitGBP |-> 200000, ethToGbpRate |-> 2650,
     totalProfitETH |-> 0, totalProfitGBP |-> 0, transactions |-> 0,
     started |-> 0, calls |-> EmptyBag]

NewManager ==
    [isRunning |-> FALSE, profit |-> 0, transactions |-> 0,
     startTime |-> NoDate, targetProfit |-> DefaultTargetProfit]

Init ==
    /\ mevManager = NewManager
    /\ now = 1
    /\ opportunities = <<>>
    /\ nextOpportunityId = 1
    /\ transactions = EmptyBag
    /\ mempoolActivity = EmptyBag
    /\ botStats = InitialBotStats
    /\ loops = EmptyBag
    /\ requests = <<>>
    /\ response = [route |-> "none", success |-> FALSE, startTime |-> NoDate,
                   stats |-> NoStats]
    /\ recorded = <<>>
    /\ faults = 0
    /\ executor = NewExecutor

----------------------------------------------------------------------------
(* The /api/mev endpoints (routes.ts:94-109, 156-172)                      *)

(* The first statements of executeOpportunitiesUntilTarget: the position   *)
(* an invocation reaches before its first await.                           *)
Enter_noCheck(manager) == "getOpportunities"

Enter(manager) ==
    IF ~getStats(manager).isRunning THEN "done" ELSE "getOpportunities"

(* began is history: the startTime of the run in which the invocation made *)
(* its isRunning check, kept while the cycle can still record a profit.    *)
NewLoop(manager) ==
    [pc |-> Enter(manager), bestOpp |-> NoOpportunity, result |-> NoResult,
     currentStats |-> InitialBotStats, began |-> manager.startTime]

(* An invocation that has returned is no longer in the bag. *)
Call(bag, invocation) ==
    IF invocation.pc = "done" THEN bag ELSE bag (+) SetToBag({invocation})

PostMevStart(targetProfit) ==
    LET result == startExecution(mevManager, targetProfit, now) IN
    /\ result.ret.success => now <= MaxStarts
    /\ mevManager' = result.self
    /\ response' = [route |-> "start", success |-> result.ret.success,
                    startTime |-> result.ret.startTime, stats |-> NoStats]
    /\ IF result.ret.success
       THEN /\ loops' = Call(loops, NewLoop(result.self))
            /\ now' = now + 1
            /\ recorded' = <<>>
       ELSE UNCHANGED <<loops, now, recorded>>
    /\ UNCHANGED <<store, requests, faults, executor>>

PostMevStop ==
    LET result == stopExecution(mevManager) IN
    /\ mevManager' = result.self
    /\ response' = [route |-> "stop", success |-> result.ret.success,
                    startTime |-> NoDate, stats |-> result.ret.stats]
    /\ UNCHANGED <<store, loops, requests, now, recorded, faults, executor>>

GetMevStatus ==
    /\ response' = [route |-> "status", success |-> TRUE, startTime |-> NoDate,
                    stats |-> getStats(mevManager)]
    /\ UNCHANGED <<mevManager, store, loops, requests, now, recorded, faults, executor>>

----------------------------------------------------------------------------
(* executeOpportunitiesUntilTarget (routes.ts:175-262)                     *)

SetLoop(l, rec) == loops' = Call(loops (-) SetToBag({l}), rec)

LoopGetOpportunities(l) ==
    /\ l.pc = "getOpportunities"
    /\ LET executableOpps == executable(opportunities) IN
       IF Len(executableOpps) > 0
       THEN SetLoop(l, [l EXCEPT !.pc = "addTransaction",
                                        !.bestOpp = sort(executableOpps)[1]])
       ELSE SetLoop(l, [l EXCEPT !.pc = "generateEmpty", !.began = NoDate])
    /\ UNCHANGED <<mevManager, store, requests, response, now, recorded, faults, executor>>

LoopAddTransaction(l) ==
    /\ l.pc = "addTransaction"
    /\ LET transaction == InsertTransaction(l.bestOpp)
           profitGbp == transaction.profitEth * ethToGbpRate
           result == recordProfit(mevManager, profitGbp)
       IN  /\ transactions' = addTransaction(transactions, transaction)
           /\ mevManager' = result.self
           /\ recorded' = Append(recorded, profitGbp)
           /\ SetLoop(l, [l EXCEPT !.pc = "deleteOpportunity",
                                          !.result = result.ret,
                                          !.began = NoDate])
    /\ UNCHANGED <<opportunities, nextOpportunityId, mempoolActivity, botStats,
                   requests, response, now, faults, executor>>

LoopDeleteOpportunity(l) ==
    /\ l.pc = "deleteOpportunity"
    /\ opportunities' = deleteOpportunity(opportunities, l.bestOpp.id)
    /\ SetLoop(l, [l EXCEPT !.pc = "addMempoolActivity"])
    /\ UNCHANGED <<mevManager, nextOpportunityId, transactions, mempoolActivity,
                   botStats, requests, response, now, recorded, faults, executor>>

LoopAddMempoolActivity(l) ==
    /\ l.pc = "addMempoolActivity"
    /\ mempoolActivity' = addMempoolActivity(mempoolActivity,
                                  ExecutionActivity(l.bestOpp))
    /\ IF ~l.result.targetReached
       THEN SetLoop(l, [NewLoop(mevManager) EXCEPT !.pc = "generate",
                                                   !.began = NoDate])
       ELSE SetLoop(l, [l EXCEPT !.pc = "getBotStats"])
    /\ UNCHANGED <<mevManager, opportunities, nextOpportunityId, transactions,
                   botStats, requests, response, now, recorded, faults, executor>>

(* generateRandomOpportunity (routes.ts:265-291) *)
generateRandomOpportunity(o) ==
    /\ nextOpportunityId <= MaxOpportunities
    /\ opportunities' = addOpportunity(opportunities, nextOpportunityId, o)
    /\ nextOpportunityId' = nextOpportunityId + 1

LoopGenerate_skips(l) ==
    /\ l.pc = "generate"
    /\ SetLoop(l, [l EXCEPT !.pc = "delay5000"])
    /\ UNCHANGED <<mevManager, store, requests, response, now, recorded, faults, executor>>

LoopGenerate(l) ==
    /\ l.pc = "generate"
    /\ \E o \in GeneratedOpportunities : generateRandomOpportunity(o)
    /\ SetLoop(l, [l EXCEPT !.pc = "delay5000"])
    /\ UNCHANGED <<mevManager, transactions, mempoolActivity, botStats,
                   requests, response, now, recorded, faults, executor>>

LoopGenerateEmpty(l) ==
    /\ l.pc = "generateEmpty"
    /\ \E o \in GeneratedOpportunities : generateRandomOpportunity(o)
    /\ SetLoop(l, [l EXCEPT !.pc = "delay3000"])
    /\ UNCHANGED <<mevManager, transactions, mempoolActivity, botStats,
                   requests, response, now, recorded, faults, executor>>

(* A delay elapses and the function calls itself: the new invocation runs  *)
(* its isRunning check at once.                                            *)
LoopContinue_returns(l) ==
    /\ l.pc \in {"delay5000", "delay3000", "delayCatch"}
    /\ SetLoop(l, [NewLoop(mevManager) EXCEPT !.pc = "done"])
    /\ UNCHANGED <<mevManager, store, requests, response, now, recorded, faults, executor>>

LoopContinue(l) ==
    /\ l.pc \in {"delay5000", "delay3000", "delayCatch"}
    /\ SetLoop(l, NewLoop(mevManager))
    /\ UNCHANGED <<mevManager, store, requests, response, now, recorded, faults, executor>>

LoopGetBotStats(l) ==
    /\ l.pc = "getBotStats"
    /\ SetLoop(l, [l EXCEPT !.pc = "updateBotStats",
                                   !.currentStats = botStats])
    /\ UNCHANGED <<mevManager, store, requests, response, now, recorded, faults, executor>>

LoopUpdateBotStats(l) ==
    /\ l.pc = "updateBotStats"
    /\ LET currentStats == l.currentStats
           result == l.result
           totalProfit == currentStats.totalProfitEth
                            + result.currentProfit \div ethToGbpRate
       IN  botStats' = [botStats EXCEPT
                          !.totalProfitEth = totalProfit,
                          !.totalTransactions =
                              currentStats.totalTransactions + result.transactions,
                          !.successRate = 1000]
    /\ SetLoop(l, [NewLoop(mevManager) EXCEPT !.pc = "done"])
    /\ UNCHANGED <<mevManager, opportunities, nextOpportunityId, transactions,
                   mempoolActivity, requests, response, now, recorded, faults, executor>>

(* A store call of the cycle throws: the catch block (routes.ts:253-261).  *)
StoreCalls ==
    {"getOpportunities", "addTransaction", "deleteOpportunity",
     "addMempoolActivity", "generate", "generateEmpty", "getBotStats",
     "updateBotStats"}

LoopCatch_stops(l) ==
    /\ l.pc \in StoreCalls
    /\ faults < MaxFaults
    /\ faults' = faults + 1
    /\ mevManager' = [mevManager EXCEPT !.isRunning = FALSE]
    /\ SetLoop(l, [NewLoop(mevManager) EXCEPT !.pc = "done"])
    /\ UNCHANGED <<store, requests, response, now, recorded, executor>>

LoopCatch(l) ==
    /\ l.pc \in StoreCalls
    /\ faults < MaxFaults
    /\ faults' = faults + 1
    /\ IF getStats(mevManager).isRunning
       THEN SetLoop(l, [NewLoop(mevManager) EXCEPT !.pc = "delayCatch",
                                                   !.began = NoDate])
       ELSE SetLoop(l, [NewLoop(mevManager) EXCEPT !.pc = "done"])
    /\ UNCHANGED <<mevManager, store, requests, response, now, recorded, executor>>

----------------------------------------------------------------------------
(* POST /api/execute-opportunity/:id                                       *)

(* Two handlers are registered for the route, at routes.ts:112 and at      *)
(* routes.ts:508.  Express runs the handlers of a matching route in        *)
(* registration order, and a handler that does not call next() ends the    *)
(* dispatch; neither handler calls next(), so the first one serves.        *)
ExecuteOpportunityHandlers ==
    <<[line |-> 112, checksExecutable |-> FALSE],
      [line |-> 508, checksExecutable |-> TRUE]>>

ServingHandler == ExecuteOpportunityHandlers[1]

find(opps, id) ==
    IF \E i \in 1..Len(opps) : opps[i].id = id
    THEN opps[CHOOSE i \in 1..Len(opps) :
                 /\ opps[i].id = id
                 /\ \A j \in 1..(i - 1) : opps[j].id # id]
    ELSE NoOpportunity

SetRequest(r, rec) == requests' = [requests EXCEPT ![r] = rec]

PostExecuteOpportunity(id) ==
    /\ Len(requests) < MaxRequests
    /\ requests' = Append(requests,
                          [pc |-> "getOpportunities", id |-> id,
                           opportunity |-> NoOpportunity, status |-> 0])
    /\ UNCHANGED <<mevManager, store, loops, response, now, recorded, faults, executor>>

ExecuteGetOpportunities(r) ==
    /\ requests[r].pc = "getOpportunities"
    /\ LET opportunity == find(opportunities, requests[r].id) IN
       IF opportunity = NoOpportunity
       THEN SetRequest(r, [requests[r] EXCEPT !.pc = "done", !.status = 404])
       ELSE IF ServingHandler.checksExecutable /\ ~opportunity.isExecutable
       THEN SetRequest(r, [requests[r] EXCEPT !.pc = "done", !.status = 400,
                                              !.opportunity = opportunity])
       ELSE SetRequest(r, [requests[r] EXCEPT !.pc = "addTransaction",
                                              !.opportunity = opportunity])
    /\ UNCHANGED <<mevManager, store, loops, response, now, recorded, faults, executor>>

ExecuteAddTransaction_recordsProfit(r) ==
    /\ requests[r].pc = "addTransaction"
    /\ LET transaction == InsertTransaction(requests[r].opportunity)
           profitGbp == transaction.profitEth * ethToGbpRate
       IN  /\ transactions' = addTransaction(transactions, transaction)
           /\ mevManager' = recordProfit(mevManager, profitGbp).self
    /\ SetRequest(r, [requests[r] EXCEPT !.pc = "deleteOpportunity"])
    /\ UNCHANGED <<opportunities, nextOpportunityId, mempoolActivity,
                   botStats, loops, response, now, recorded, faults, executor>>

ExecuteAddTransaction(r) ==
    /\ requests[r].pc = "addTransaction"
    /\ transactions' = addTransaction(transactions,
                                      InsertTransaction(requests[r].opportunity))
    /\ SetRequest(r, [requests[r] EXCEPT !.pc = "deleteOpportunity"])
    /\ UNCHANGED <<mevManager, opportunities, nextOpportunityId, mempoolActivity,
                   botStats, loops, response, now, recorded, faults, executor>>

ExecuteDeleteOpportunity(r) ==
    /\ requests[r].pc = "deleteOpportunity"
    /\ opportunities' = deleteOpportunity(opportunities, requests[r].id)
    /\ SetRequest(r, [requests[r] EXCEPT !.pc = "addMempoolActivity"])
    /\ UNCHANGED <<mevManager, nextOpportunityId, transactions, mempoolActivity,
                   botStats, loops, response, now, recorded, faults, executor>>

ExecuteAddMempoolActivity(r) ==
    /\ requests[r].pc = "addMempoolActivity"
    /\ mempoolActivity' = addMempoolActivity(mempoolActivity,
                                  ExecutionActivity(requests[r].opportunity))
    /\ SetRequest(r, [requests[r] EXCEPT !.pc = "done", !.status = 200])
    /\ UNCHANGED <<mevManager, opportunities, nextOpportunityId, transactions,
                   botStats, loops, response, now, recorded, faults, executor>>

(* POST /api/opportunities (routes.ts:370-378) *)
PostOpportunity(o) ==
    /\ nextOpportunityId <= MaxOpportunities
    /\ opportunities' = addOpportunity(opportunities, nextOpportunityId, o)
    /\ nextOpportunityId' = nextOpportunityId + 1
    /\ UNCHANGED <<mevManager, transactions, mempoolActivity, botStats, loops,
                   requests, response, now, recorded, faults, executor>>

(* DELETE /api/opportunities/:id (routes.ts:381-393) *)
DeleteOpportunity(id) ==
    /\ opportunities' = deleteOpportunity(opportunities, id)
    /\ UNCHANGED <<mevManager, nextOpportunityId, transactions, mempoolActivity,
                   botStats, loops, requests, response, now, recorded, faults, executor>>

----------------------------------------------------------------------------
(* The coordinator: the /api/mev requests and the steps of the execution   *)
(* loops they start, in any interleaving.                                   *)

Next ==
    \/ \E t \in TargetArguments : PostMevStart(t)
    \/ PostMevStop
    \/ GetMevStatus
    \/ \E l \in BagToSet(loops) : LoopGetOpportunities(l)
    \/ \E l \in BagToSet(loops) : LoopAddTransaction(l)
    \/ \E l \in BagToSet(loops) : LoopDeleteOpportunity(l)
    \/ \E l \in BagToSet(loops) : LoopAddMempoolActivity(l)
    \/ \E l \in BagToSet(loops) : LoopGenerate(l)
    \/ \E l \in BagToSet(loops) : LoopGenerateEmpty(l)
    \/ \E l \in BagToSet(loops) : LoopContinue(l)
    \/ \E l \in BagToSet(loops) : LoopGetBotStats(l)
    \/ \E l \in BagToSet(loops) : LoopUpdateBotStats(l)

Spec == Init /\ [][Next]_vars

(* The coordinator with store calls that can fail. *)
NextFaults ==
    \/ Next
    \/ \E l \in BagToSet(loops) : LoopCatch(l)

SpecFaults == Init /\ [][NextFaults]_vars

(* The manual execution path: clients insert, delete and execute           *)
(* opportunities while no automated run is active.                         *)
NextExecute ==
    \/ \E o \in PostedOpportunities : PostOpportunity(o)
    \/ \E id \in 1..MaxOpportunities : DeleteOpportunity(id)
    \/ \E id \in 1..MaxOpportunities : PostExecuteOpportunity(id)
    \/ \E r \in DOMAIN requests : ExecuteGetOpportunities(r)
    \/ \E r \in DOMAIN requests : ExecuteAddTransaction(r)
    \/ \E r \in DOMAIN requests : ExecuteDeleteOpportunity(r)
    \/ \E r \in DOMAIN requests : ExecuteAddMempoolActivity(r)

SpecExecute == Init /\ [][NextExecute]_vars

(* One run on its own: the first start request has just been accepted,    *)
(* with any of the target arguments, and no other start request follows.   *)
Started(t) ==
    LET result == startExecution(NewManager, t, 1) IN
    /\ mevManager = result.self
    /\ now = 2
    /\ opportunities = <<>>
    /\ nextOpportunityId = 1
    /\ transactions = EmptyBag
    /\ mempoolActivity = EmptyBag
    /\ botStats = InitialBotStats
    /\ loops = Call(EmptyBag, NewLoop(result.self))
    /\ requests = <<>>
    /\ response = [route |-> "start", success |-> result.ret.success,
                   startTime |-> result.ret.startTime, stats |-> NoStats]
    /\ recorded = <<>>
    /\ faults = 0
    /\ executor = NewExecutor

InitRun == \E t \in TargetArguments : Started(t)

NextRun ==
    \/ PostMevStop
    \/ GetMevStatus
    \/ \E l \in BagToSet(loops) : LoopGetOpportunities(l)
    \/ \E l \in BagToSet(loops) : LoopAddTransaction(l)
    \/ \E l \in BagToSet(loops) : LoopDeleteOpportunity(l)
    \/ \E l \in BagToSet(loops) : LoopAddMempoolActivity(l)
    \/ \E l \in BagToSet(loops) : LoopGenerate(l)
    \/ \E l \in BagToSet(loops) : LoopGenerateEmpty(l)
    \/ \E l \in BagToSet(loops) : LoopContinue(l)
    \/ \E l \in BagToSet(loops) : LoopGetBotStats(l)
    \/ \E l \in BagToSet(loops) : LoopUpdateBotStats(l)

(* One run with the loop as the only writer of the store. *)
SpecRun == InitRun /\ [][NextRun]_vars

(* ... while clients insert opportunities of their own, executable or     *)
(* not, through POST /api/opportunities.                                   *)
NextPosted ==
    \/ NextRun
    \/ \E o \in PostedOpportunities : PostOpportunity(o)

SpecPosted == InitRun /\ [][NextPosted]_vars

(* ... while clients execute opportunities by hand. *)
NextManual ==
    \/ NextRun
    \/ \E id \in 1..MaxOpportunities : PostExecuteOpportunity(id)
    \/ \E r \in DOMAIN requests : ExecuteGetOpportunities(r)
    \/ \E r \in DOMAIN requests : ExecuteAddTransaction(r)
    \/ \E r \in DOMAIN requests : ExecuteDeleteOpportunity(r)
    \/ \E r \in DOMAIN requests : ExecuteAddMempoolActivity(r)

SpecManual == InitRun /\ [][NextManual]_vars

(* ... while store calls of the loop can fail. *)
NextRunFaults ==
    \/ NextRun
    \/ \E l \in BagToSet(loops) : LoopCatch(l)

SpecRunFaults == InitRun /\ [][NextRunFaults]_vars

----------------------------------------------------------------------------
(* Properties of the coordinator                                           *)

(* A step in which /api/mev/start, resp. /api/mev/stop, sent a response    *)
(* (a request answered exactly as the request before it, with no change of *)
(* state, is a stuttering step).                                           *)
StartHandled == response'.route = "start" /\ response' # response
StopHandled == response'.route = "stop" /\ response' # response

(* C1: a start request handled while isRunning is true is answered with    *)
(* success = false and changes no field of the manager, and one handled    *)
(* while Idle is accepted and leaves isRunning true; so of two start       *)
(* requests handled one after the other exactly the first is accepted.     *)
C1_StartWhileRunningRejected ==
    [][StartHandled =>
          IF mevManager.isRunning
          THEN ~response'.success /\ mevManager' = mevManager
          ELSE response'.success /\ mevManager'.isRunning]_vars

C1_Witness ==
    /\ response.route = "start"
    /\ ~response.success
    /\ mevManager.isRunning
    /\ mevManager.transactions > 0

(* C2: isRunning is false whenever profit >= targetProfit. *)
C2_TargetReachedImpliesStopped ==
    mevManager.profit >= mevManager.targetProfit => ~mevManager.isRunning

(* C3: once a recordProfit call has brought profit >= targetProfit, no     *)
(* recordProfit call occurs until the next accepted startExecution.        *)
C3_NoRecordProfitAfterTarget ==
    [][(Len(recorded) > 0 /\ mevManager.profit >= mevManager.targetProfit)
          => (recorded' = recorded \/ recorded' = <<>>)]_vars

(* C4: a recordProfit(a) call adds a to profit, increments transactions,   *)
(* sets isRunning to false exactly when the new profit >= targetProfit,    *)
(* leaves isRunning as it was otherwise, and returns that comparison as    *)
(* targetReached to the cycle that called it.                              *)
C4_RecordProfitStep ==
    [][Len(recorded') = Len(recorded) + 1 =>
          LET a == recorded'[Len(recorded')]
              reached == mevManager'.profit >= mevManager.targetProfit
          IN  /\ mevManager'.profit = mevManager.profit + a
              /\ mevManager'.transactions = mevManager.transactions + 1
              /\ mevManager'.targetProfit = mevManager.targetProfit
              /\ mevManager'.startTime = mevManager.startTime
              /\ mevManager'.isRunning =
                     (IF reached THEN FALSE ELSE mevManager.isRunning)
              /\ \E l \in BagToSet(loops') :
                     /\ CopiesIn(l, loops') > CopiesIn(l, loops)
                     /\ l.pc = "deleteOpportunity"
                     /\ l.result.targetReached = reached
                     /\ l.result.currentProfit = mevManager'.profit]_vars

C4_Witness ==
    /\ ~mevManager.isRunning
    /\ mevManager.transactions = 2
    /\ \E l \in BagToSet(loops) :
          l.pc = "deleteOpportunity" /\ l.result.targetReached
                                     /\ l.result.transactions = 2

(* C5: a stop request handled while Idle is answered with success = false  *)
(* and changes no field of the manager; one handled while Running is       *)
(* answered with success = true and a stats snapshot showing isRunning =   *)
(* false, and leaves isRunning false and the other fields unchanged.       *)
C5_StopBoundary ==
    [][StopHandled =>
          IF ~mevManager.isRunning
          THEN ~response'.success /\ mevManager' = mevManager
          ELSE /\ response'.success
               /\ mevManager' = [mevManager EXCEPT !.isRunning = FALSE]
               /\ response'.stats = getStats(mevManager')
               /\ ~response'.stats.isRunning]_vars

C5_Witness ==
    /\ response.route = "stop"
    /\ response.success
    /\ ~response.stats.isRunning
    /\ response.stats.transactions > 0
    /\ ~mevManager.isRunning

RECURSIVE Sum(_)
Sum(seq) == IF seq = <<>> THEN 0 ELSE seq[1] + Sum(Tail(seq))

(* C7: profit is the sum of the amounts given to recordProfit since the    *)
(* last accepted startExecution and transactions is their number.          *)
C7_Accumulation ==
    /\ mevManager.profit = Sum(recorded)
    /\ mevManager.transactions = Len(recorded)

C7_Witness ==
    /\ Len(recorded) >= 2
    /\ response.route = "stop"
    /\ mevManager.profit = 2 * 100 * ethToGbpRate

(* C10: a start request with a supplied targetProfit <= 0 is answered with *)
(* a failure and changes nothing, so that targetProfit stays positive.     *)
C10_NonPositiveTargetRejected ==
    [][\A t \in TargetArguments :
          (t.supplied /\ t.value <= 0 /\ PostMevStart(t)) =>
              /\ ~response'.success
              /\ mevManager' = mevManager
              /\ mevManager'.targetProfit > 0]_vars

----------------------------------------------------------------------------
(* The selection rule on its own: the store holds any list of at most      *)
(* MaxListLen opportunities and a running loop reads it.                   *)

SelectionSamples ==
    {InsertOpportunity("Triangular", "ETH -> USDC -> WBTC -> ETH", 9, 4, TRUE),
     InsertOpportunity("DEX", "USDT(Uniswap) -> USDT(SushiSwap)", 12, 3, TRUE),
     InsertOpportunity("Flash Loan", "AAVE -> Uniswap -> Compound", 10, 1, TRUE),
     InsertOpportunity("DEX", "WBTC(Uniswap) -> WBTC(Balancer)", 5, 3, TRUE),
     InsertOpportunity("Triangular", "ETH -> USDT -> DAI -> ETH", 20, 1, FALSE)}

InitSelect ==
    /\ mevManager = [isRunning |-> TRUE, profit |-> 0, transactions |-> 0,
                     startTime |-> 1, targetProfit |-> DefaultTargetProfit]
    /\ now = 2
    /\ \E n \in 0..MaxListLen : \E list \in [1..n -> SelectionSamples] :
          /\ opportunities = [i \in 1..n |-> Opportunity(i, list[i])]
          /\ nextOpportunityId = n + 1
    /\ transactions = EmptyBag
    /\ mempoolActivity = EmptyBag
    /\ botStats = InitialBotStats
    /\ loops = SetToBag({NewLoop(mevManager)})
    /\ requests = <<>>
    /\ response = [route |-> "start", success |-> TRUE, startTime |-> 1,
                   stats |-> NoStats]
    /\ recorded = <<>>
    /\ faults = 0
    /\ executor = NewExecutor

NextSelect == \E l \in BagToSet(loops) : LoopGetOpportunities(l)

SpecSelect == InitSelect /\ [][NextSelect]_vars

----------------------------------------------------------------------------
(* Properties of the manual execution path                                 *)

(* C9: a request that finds its opportunity not executable is answered     *)
(* with the not-executable failure (status 400) at once: it records no     *)
(* transaction, appends no log line and does not delete the opportunity.   *)
C9_NonExecutableRefused ==
    \A r \in DOMAIN requests :
        (requests[r].opportunity # NoOpportunity
            /\ ~requests[r].opportunity.isExecutable) =>
                /\ requests[r].pc = "done"
                /\ requests[r].status = 400
                /\ \A tx \in BagToSet(transactions) :
                       tx.opportunityId # requests[r].id
                /\ \A a \in BagToSet(mempoolActivity) :
                       a.opportunityId # requests[r].id

----------------------------------------------------------------------------
(* The quotient n / d for a divisor of either sign. *)
Quotient(n, d) == IF d > 0 THEN n \div d ELSE -(n \div (-d))

(* C11: the percentComplete a status request returns is                    *)
(* 100 * profit / targetProfit whenever targetProfit is not 0, and 0 when  *)
(* targetProfit is 0.                                                      *)
C11_PercentCompleteIsRatio ==
    response.route = "status" =>
        LET stats == response.stats IN
        IF stats.targetProfit # 0
        THEN stats.percentComplete
               = Quotient(100 * stats.profit, stats.targetProfit)
        ELSE stats.percentComplete = 0

(* C12, as claimed: profit is >= 0 and percentComplete is >= 0 in every    *)
(* state, whatever opportunities the loop executes, those inserted through *)
(* POST /api/opportunities with a negative estimated profit and            *)
(* isExecutable true included.                                             *)
C12_ProfitNeverNegative ==
    /\ mevManager.profit >= 0
    /\ getStats(mevManager).percentComplete >= 0

(* C12, amended: profit can fall below 0 when the loop executes an         *)
(* opportunity with a negative estimated profit; profit is >= 0 as long as *)
(* every opportunity executed so far had an estimated profit >= 0, and     *)
(* percentComplete is >= 0 whenever profit is.                             *)
C12_ProfitNonNegativeWithoutLosses ==
    /\ (\A tx \in BagToSet(transactions) : tx.profitEth >= 0)
           => mevManager.profit >= 0
    /\ mevManager.profit >= 0 => getStats(mevManager).percentComplete >= 0

(* The loop has executed a profitable opportunity while a loss-making      *)
(* executable opportunity inserted through the API waits in the store.     *)
C12_Witness ==
    /\ transactions # EmptyBag
    /\ \A tx \in BagToSet(transactions) : tx.profitEth >= 0
    /\ mevManager.profit > 0
    /\ \E i \in 1..Len(opportunities) :
           /\ opportunities[i].estimatedProfitEth < 0
           /\ opportunities[i].isExecutable

(* C13: when the first amount recorded after start(T) is p >= T, the run   *)
(* ends with that execution: the manager then shows isRunning = false,     *)
(* profit = p, transactions = 1 and percentComplete = 100 * p / T, and no  *)
(* second execution is recorded for the run.                               *)
C13_SingleExecutionEndsRun ==
    (Len(recorded) >= 1 /\ recorded[1] >= mevManager.targetProfit) =>
        LET stats == getStats(mevManager) IN
        /\ ~stats.isRunning
        /\ stats.profit = recorded[1]
        /\ stats.transactions = 1
        /\ stats.percentComplete
             = Quotient(100 * recorded[1], stats.targetProfit)
        /\ Len(recorded) = 1

(* The number of live invocations of the loop that wait at a given step. *)
LoopsAt(bag, pc) ==
    BagCardinality([l \in {x \in BagToSet(bag) : x.pc = pc} |-> bag[l]])

NoneExecutable ==
    \A i \in 1..Len(opportunities) : ~opportunities[i].isExecutable

(* C14: a cycle that finds no executable opportunity in the store turns to *)
(* the generator without touching the store or the manager; the generator  *)
(* step persists exactly one opportunity, records no transaction, calls no *)
(* recordProfit and deletes no opportunity, and is followed by the 3 s     *)
(* delay; after the delay the loop re-enters its isRunning check.          *)
C14_EmptyCycle ==
    [][ /\ ( /\ LoopsAt(loops', "getOpportunities")
                  < LoopsAt(loops, "getOpportunities")
             /\ NoneExecutable )
            => /\ LoopsAt(loops', "generateEmpty")
                    = LoopsAt(loops, "generateEmpty") + 1
               /\ UNCHANGED <<mevManager, store, recorded>>
        /\ LoopsAt(loops', "generateEmpty") < LoopsAt(loops, "generateEmpty")
            => /\ Len(opportunities') = Len(opportunities) + 1
               /\ \A i \in 1..Len(opportunities) :
                      opportunities'[i] = opportunities[i]
               /\ LoopsAt(loops', "delay3000")
                    = LoopsAt(loops, "delay3000") + 1
               /\ UNCHANGED <<mevManager, transactions, mempoolActivity,
                              botStats, recorded>>
        /\ LoopsAt(loops', "delay3000") < LoopsAt(loops, "delay3000")
            => /\ IF mevManager.isRunning
                  THEN LoopsAt(loops', "getOpportunities")
                         = LoopsAt(loops, "getOpportunities") + 1
                  ELSE BagCardinality(loops') = BagCardinality(loops) - 1
               /\ UNCHANGED <<mevManager, store, recorded>>
      ]_vars

(* A cycle that found only a non-executable opportunity has generated one  *)
(* and waits at its delay, with nothing executed.                          *)
C14_Witness ==
    /\ LoopsAt(loops, "delay3000") = 1
    /\ Len(opportunities) = 2
    /\ ~opportunities[1].isExecutable
    /\ opportunities[2] \in {Opportunity(2, o) : o \in GeneratedOpportunities}
    /\ transactions = EmptyBag
    /\ recorded = <<>>

(* C15: no step of a manual execution request changes the manager's        *)
(* isRunning, profit, transactions or targetProfit, nor counts as a        *)
(* recordProfit call, whether a run is active or not.  A request for an id *)
(* that is not in the store is answered 404 and changes nothing in the     *)
(* store; a request that finds its opportunity records one transaction for *)
(* it, removes it from the store and appends one log entry, in that order. *)
C15_ManualExecutionFrame ==
    [][ \A r \in DOMAIN requests :
          requests'[r] # requests[r] =>
            LET req == requests[r]
                known == \E i \in 1..Len(opportunities) :
                             opportunities[i].id = req.id
            IN
            /\ UNCHANGED <<mevManager, recorded, botStats, loops>>
            /\ req.pc = "getOpportunities" =>
                 /\ UNCHANGED store
                 /\ IF known
                    THEN /\ requests'[r].pc = "addTransaction"
                         /\ requests'[r].opportunity.id = req.id
                    ELSE /\ requests'[r].pc = "done"
                         /\ requests'[r].status = 404
            /\ req.pc = "addTransaction" =>
                 /\ transactions'
                      = transactions (+) SetToBag({InsertTransaction(req.opportunity)})
                 /\ BagCardinality(transactions')
                      = BagCardinality(transactions) + 1
                 /\ UNCHANGED <<opportunities, mempoolActivity>>
                 /\ requests'[r].pc = "deleteOpportunity"
            /\ req.pc = "deleteOpportunity" =>
                 /\ \A i \in 1..Len(opportunities') :
                        opportunities'[i].id # req.id
                 /\ Len(opportunities') >= Len(opportunities) - 1
                 /\ UNCHANGED <<transactions, mempoolActivity>>
                 /\ requests'[r].pc = "addMempoolActivity"
            /\ req.pc = "addMempoolActivity" =>
                 /\ BagCardinality(mempoolActivity')
                      = BagCardinality(mempoolActivity) + 1
                 /\ UNCHANGED <<transactions, opportunities>>
                 /\ requests'[r].pc = "done"
                 /\ requests'[r].status = 200
      ]_vars

(* A manual execution has been answered 200 while a run is active: its     *)
(* transaction is recorded, its opportunity is gone, and the manager has   *)
(* counted nothing.                                                        *)
C15_Witness ==
    /\ mevManager.isRunning
    /\ mevManager.transactions = 0
    /\ \E r \in DOMAIN requests :
           /\ requests[r].pc = "done"
           /\ requests[r].status = 200
           /\ \E tx \in BagToSet(transactions) :
                  tx.opportunityId = requests[r].id
           /\ \A i \in 1..Len(opportunities) :
                  opportunities[i].id # requests[r].id

(* C16: startTime is set by every accepted start and cleared when the run  *)
(* ends, by a successful stop or by the recordProfit that reaches the      *)
(* target: startTime is set if and only if isRunning is true.              *)
C16_StartTimeSetIffRunning ==
    (mevManager.startTime # NoDate) <=> mevManager.isRunning

(* C17: whenever no cycle and no request is in flight,                     *)
(* BotStats.totalTransactions minus its initial value is the number of     *)
(* transactions recorded since initialization.                             *)
C17_TotalTransactionsCountsAll ==
    ( /\ loops = EmptyBag
      /\ \A r \in DOMAIN requests : requests[r].pc = "done" )
        => botStats.totalTransactions - InitialBotStats.totalTransactions
             = BagCardinality(transactions)

(* The number of invocations of the loop that are inside a cycle: past     *)
(* their isRunning check and not yet at the delay that ends the cycle.     *)
CyclesInProgress ==
    BagCardinality([l \in {x \in BagToSet(loops) : x.pc \in StoreCalls}
                      |-> loops[l]])

(* C18: in every interleaving of start and stop requests with the loop, at *)
(* most one execution loop is active and no cycle begins before the        *)
(* previous cycle has finished: at most one cycle is in progress.          *)
C18_AtMostOneLoop == CyclesInProgress <= 1

Delays == {"delay5000", "delay3000", "delayCatch"}

(* C19: while isRunning stays false (a stop has succeeded and no start has *)
(* been accepted since), no invocation of the loop begins a cycle, an      *)
(* invocation at a delay returns at its isRunning check, and a cycle in    *)
(* flight goes on through its steps in order: the transaction with its     *)
(* recordProfit, then the removal, then the log entry.  Transactions,      *)
(* removals, generated opportunities and recordProfit calls come from      *)
(* cycles in flight only.                                                  *)
C19_StopLetsCycleFinish ==
    [][ (~mevManager.isRunning /\ ~mevManager'.isRunning) =>
          /\ LoopsAt(loops', "getOpportunities")
               <= LoopsAt(loops, "getOpportunities")
          /\ BagCardinality(loops') <= BagCardinality(loops)
          /\ \A d \in Delays :
                 LoopsAt(loops', d) < LoopsAt(loops, d)
                     => BagCardinality(loops') = BagCardinality(loops) - 1
          /\ LoopsAt(loops', "addTransaction") < LoopsAt(loops, "addTransaction")
               => /\ BagCardinality(transactions')
                       = BagCardinality(transactions) + 1
                  /\ Len(recorded') = Len(recorded) + 1
                  /\ mevManager'.transactions = mevManager.transactions + 1
                  /\ LoopsAt(loops', "deleteOpportunity")
                       = LoopsAt(loops, "deleteOpportunity") + 1
          /\ LoopsAt(loops', "deleteOpportunity")
               < LoopsAt(loops, "deleteOpportunity")
               => LoopsAt(loops', "addMempoolActivity")
                    = LoopsAt(loops, "addMempoolActivity") + 1
          /\ LoopsAt(loops', "addMempoolActivity")
               < LoopsAt(loops, "addMempoolActivity")
               => BagCardinality(mempoolActivity')
                    = BagCardinality(mempoolActivity) + 1
          /\ transactions' # transactions \/ recorded' # recorded
               => LoopsAt(loops', "addTransaction")
                    < LoopsAt(loops, "addTransaction")
          /\ Len(opportunities') < Len(opportunities)
               => LoopsAt(loops', "deleteOpportunity")
                    < LoopsAt(loops, "deleteOpportunity")
          /\ Len(opportunities') > Len(opportunities)
               => \/ LoopsAt(loops', "generate") < LoopsAt(loops, "generate")
                  \/ LoopsAt(loops', "generateEmpty")
                       < LoopsAt(loops, "generateEmpty")
      ]_vars

(* A stop was answered with success while a cycle was in flight with       *)
(* nothing recorded yet; the cycle has since recorded its transaction and  *)
(* profit and gone through its remaining steps, and the loop has returned. *)
C19_Witness ==
    /\ response.route = "stop"
    /\ response.success
    /\ response.stats.transactions = 0
    /\ ~mevManager.isRunning
    /\ mevManager.transactions = 1
    /\ mevManager.profit < mevManager.targetProfit
    /\ BagCardinality(transactions) = 1
    /\ BagCardinality(mempoolActivity) = 1
    /\ loops = EmptyBag

(* C20: a store or generator call that fails inside a cycle is caught by   *)
(* the loop: the step leaves isRunning, profit, transactions and the rest  *)
(* of the manager as they were and writes nothing to the store; if         *)
(* isRunning is true the invocation waits at the catch block's delay,      *)
(* otherwise it returns; after the delay the loop re-enters its isRunning  *)
(* check and begins another cycle if isRunning is still true.              *)
C20_FaultCaught ==
    [][ /\ faults' # faults =>
              /\ faults' = faults + 1
              /\ UNCHANGED <<mevManager, store, recorded>>
              /\ LoopsAt(loops', "done") = 0
              /\ IF mevManager.isRunning
                 THEN /\ BagCardinality(loops') = BagCardinality(loops)
                      /\ LoopsAt(loops', "delayCatch")
                           = LoopsAt(loops, "delayCatch") + 1
                 ELSE BagCardinality(loops') = BagCardinality(loops) - 1
        /\ LoopsAt(loops', "delayCatch") < LoopsAt(loops, "delayCatch") =>
              /\ UNCHANGED <<mevManager, store, recorded>>
              /\ IF mevManager.isRunning
                 THEN LoopsAt(loops', "getOpportunities")
                        = LoopsAt(loops, "getOpportunities") + 1
                 ELSE BagCardinality(loops') = BagCardinality(loops) - 1
      ]_vars

(* A store call failed after the cycle had recorded an execution: the run  *)
(* is still active with the profit and the count of that execution, and    *)
(* the loop waits to retry.                                                *)
C20_Witness ==
    /\ faults = 1
    /\ mevManager.isRunning
    /\ mevManager.transactions = 1
    /\ mevManager.profit > 0
    /\ LoopsAt(loops, "delayCatch") = 1

(* C21: once a run has ended by reaching its target and its loop has       *)
(* returned, BotStats holds the run's update: totalTransactions increased  *)
(* by the run's transactions and totalProfitEth increased by the run's     *)
(* profit converted back at the fixed rate, also when a store call between *)
(* recordProfit and the stats update has failed.                           *)
C21_TargetReachedUpdatesBotStats ==
    ( /\ loops = EmptyBag
      /\ recorded # <<>>
      /\ mevManager.profit >= mevManager.targetProfit )
        => /\ botStats.totalTransactions
                = InitialBotStats.totalTransactions + mevManager.transactions
           /\ botStats.totalProfitEth
                = InitialBotStats.totalProfitEth
                    + mevManager.profit \div ethToGbpRate

(* C22: in a cycle that executes an opportunity and meets no fault, the    *)
(* transaction step adds exactly one transaction, "Confirmed", with the    *)
(* type, pairs, profit and gas cost of the selected opportunity, and calls *)
(* recordProfit once with that profit times 2650; the removal step removes *)
(* the selected opportunity and no other; the log step appends exactly one *)
(* execution entry.                                                        *)
C22_ExecutingCycleEffects ==
    [][ \A l \in BagToSet(loops) :
          CopiesIn(l, loops') < CopiesIn(l, loops) =>
            /\ l.pc = "addTransaction" =>
                 LET amount == l.bestOpp.estimatedProfitEth * ethToGbpRate IN
                 /\ transactions'
                      = transactions (+) SetToBag({
                          [type |-> l.bestOpp.type, pairs |-> l.bestOpp.pairs,
                           profitEth |-> l.bestOpp.estimatedProfitEth,
                           gasCostEth |-> l.bestOpp.estimatedGasCostEth,
                           status |-> "Confirmed",
                           opportunityId |-> l.bestOpp.id]})
                 /\ BagCardinality(transactions')
                      = BagCardinality(transactions) + 1
                 /\ recorded' = Append(recorded, amount)
                 /\ mevManager'.profit = mevManager.profit + amount
                 /\ mevManager'.transactions = mevManager.transactions + 1
                 /\ UNCHANGED <<opportunities, mempoolActivity>>
                 /\ LoopsAt(loops', "deleteOpportunity")
                      = LoopsAt(loops, "deleteOpportunity") + 1
            /\ l.pc = "deleteOpportunity" =>
                 /\ Len(opportunities') = Len(opportunities) - 1
                 /\ \A i \in 1..Len(opportunities) :
                        opportunities[i].id # l.bestOpp.id
                            <=> \E j \in 1..Len(opportunities') :
                                    opportunities'[j] = opportunities[i]
                 /\ UNCHANGED <<mevManager, transactions, mempoolActivity,
                                recorded>>
                 /\ LoopsAt(loops', "addMempoolActivity")
                      = LoopsAt(loops, "addMempoolActivity") + 1
            /\ l.pc = "addMempoolActivity" =>
                 /\ BagCardinality(mempoolActivity')
                      = BagCardinality(mempoolActivity) + 1
                 /\ \E a \in BagToSet(mempoolActivity') :
                        /\ a.type = "execution"
                        /\ a.opportunityId = l.bestOpp.id
                 /\ UNCHANGED <<mevManager, transactions, opportunities,
                                recorded>>
      ]_vars

(* A cycle has executed the best of two opportunities in the store and     *)
(* gone through its three steps: one transaction, one log entry, one       *)
(* recordProfit call, and the other opportunity is still in the store.     *)
C22_Witness ==
    /\ BagCardinality(transactions) = 1
    /\ BagCardinality(mempoolActivity) = 1
    /\ Len(recorded) = 1
    /\ mevManager.transactions = 1
    /\ Len(opportunities) >= 1
    /\ \E tx \in BagToSet(transactions) :
           /\ tx.status = "Confirmed"
           /\ recorded[1] = tx.profitEth * ethToGbpRate
           /\ \A i \in 1..Len(opportunities) :
                  opportunities[i].id # tx.opportunityId
    /\ \E i \in 1..Len(opportunities) :
           opportunities[i].estimatedProfitEth < 0

----------------------------------------------------------------------------
(* generateRandomOpportunity over its ranges (routes.ts:276-279): the      *)
(* profit is a 4-decimal value in 0.0080..0.0450 and the gas cost one in   *)
(* 0.0030..0.0160, drawn independently; isExecutable is the literal true.  *)
MinProfit == 80
MaxProfit == 450
MinGasCost == 30
MaxGasCost == 160

GeneratorProfits == {MinProfit, 100, MaxGasCost, MaxProfit}
GeneratorGasCosts == {MinGasCost, 100, MaxGasCost}

RandomOpportunities ==
    {InsertOpportunity("DEX", "USDT(Uniswap) -> USDT(SushiSwap)",
                       profit, gasCost, TRUE) :
         profit \in GeneratorProfits, gasCost \in GeneratorGasCosts}

GenerateRandom(o) ==
    /\ generateRandomOpportunity(o)
    /\ UNCHANGED <<mevManager, transactions, mempoolActivity, botStats, loops,
                   requests, response, now, recorded, faults, executor>>

NextGenerate == \E o \in RandomOpportunities : GenerateRandom(o)

SpecGenerate == Init /\ [][NextGenerate]_vars

(* C23: every opportunity the generator has put in the store has           *)
(* isExecutable = true if and only if its estimated profit is greater than *)
(* its estimated gas cost.                                                 *)
C23_ExecutableIffProfitable ==
    \A i \in 1..Len(opportunities) :
        opportunities[i].isExecutable
            <=> opportunities[i].estimatedProfitEth
                  > opportunities[i].estimatedGasCostEth

(* C24: a cycle that has executed an opportunity without reaching the      *)
(* target goes on to the generator, which persists exactly one new         *)
(* opportunity and keeps the rows there are, and then to the 5 s delay     *)
(* before the next cycle; a cycle that has reached the target goes on to   *)
(* the stats update and persists no opportunity.  With the loop as the     *)
(* only writer every executing cycle starts with one opportunity in the    *)
(* store, and the store holds one again when the cycle waits at its delay. *)
C24_ReplenishOne ==
    /\ [][ \A l \in BagToSet(loops) :
             CopiesIn(l, loops') < CopiesIn(l, loops) =>
               /\ l.pc = "addMempoolActivity" =>
                    /\ UNCHANGED <<opportunities, nextOpportunityId>>
                    /\ IF l.result.targetReached
                       THEN /\ LoopsAt(loops', "getBotStats")
                                 = LoopsAt(loops, "getBotStats") + 1
                            /\ LoopsAt(loops', "generate")
                                 = LoopsAt(loops, "generate")
                       ELSE LoopsAt(loops', "generate")
                              = LoopsAt(loops, "generate") + 1
               /\ l.pc = "generate" =>
                    /\ Len(opportunities') = Len(opportunities) + 1
                    /\ \A i \in 1..Len(opportunities) :
                           opportunities'[i] = opportunities[i]
                    /\ LoopsAt(loops', "delay5000")
                         = LoopsAt(loops, "delay5000") + 1
               /\ l.pc \in {"delay5000", "getBotStats", "updateBotStats"} =>
                    UNCHANGED <<opportunities, nextOpportunityId>>
               /\ l.pc = "updateBotStats" =>
                    BagCardinality(loops') = BagCardinality(loops) - 1
         ]_vars
    /\ [](\A l \in BagToSet(loops) :
             /\ l.pc \in {"addTransaction", "delay5000"}
                    => Len(opportunities) = 1
             /\ l.pc \in {"addMempoolActivity", "generate", "getBotStats",
                          "updateBotStats"}
                    => Len(opportunities) = 0)

(* The first cycle found the store empty and generated an opportunity; the *)
(* second executed it short of the target, replenished the store and waits *)
(* at its delay.                                                           *)
C24_Witness ==
    /\ LoopsAt(loops, "delay5000") = 1
    /\ mevManager.isRunning
    /\ Len(recorded) = 1
    /\ Len(opportunities) = 1
    /\ opportunities[1].id = 2
    /\ nextOpportunityId = 3

(* C25: a status request changes no field of the manager; a stop request   *)
(* and a rejected start request leave profit, transactions and             *)
(* targetProfit as they were; profit and transactions change only in an    *)
(* accepted start and in a recordProfit call.                              *)
C25_ManagerFrame ==
    [][ /\ (response'.route = "status" /\ response' # response)
            => mevManager' = mevManager
        /\ StopHandled
            => /\ mevManager'.profit = mevManager.profit
               /\ mevManager'.transactions = mevManager.transactions
               /\ mevManager'.targetProfit = mevManager.targetProfit
        /\ (StartHandled /\ ~response'.success)
            => mevManager' = mevManager
        /\ ( \/ mevManager'.profit # mevManager.profit
             \/ mevManager'.transactions # mevManager.transactions )
            => \/ StartHandled /\ response'.success
               \/ Len(recorded') = Len(recorded) + 1
      ]_vars

(* A stop has been accepted after an execution, and the manager still      *)
(* holds the profit and the count of that execution.                       *)
C25_Witness ==
    /\ response.route = "stop"
    /\ response.success
    /\ ~mevManager.isRunning
    /\ mevManager.profit > 0
    /\ mevManager.transactions = 1
    /\ response.stats.profit = mevManager.profit
    /\ mevManager.profit < mevManager.targetProfit

(* The number of transactions recorded for an opportunity id. *)
TransactionsFor(id) ==
    BagCardinality([tx \in {x \in BagToSet(transactions) :
                               x.opportunityId = id} |-> transactions[tx]])

(* C26: each opportunity id has at most one transaction recorded for it,   *)
(* in every interleaving of loop cycles, manual execution requests and     *)
(* store faults.                                                           *)
C26_ExecutedAtMostOnce ==
    \A id \in 1..(nextOpportunityId - 1) : TransactionsFor(id) <= 1

(* C27: every recordProfit call made between an accepted start and the     *)
(* next one comes from a cycle that began after that start: the cycle that *)
(* records a profit made its isRunning check in the run that is current.   *)
C27_ProfitFromCurrentRun ==
    [][ \A l \in BagToSet(loops) :
          ( /\ CopiesIn(l, loops') < CopiesIn(l, loops)
            /\ l.pc = "addTransaction" )
              => l.began = mevManager.startTime
      ]_vars

----------------------------------------------------------------------------
(* POST /api/transactions (routes.ts:328-356): the handler inserts the     *)
(* transaction, reads the bot_stats row, and writes back the totals it has *)
(* computed from what it read.                                             *)

(* A valid request body. *)
PostedTransactions ==
    {[type |-> "DEX", pairs |-> "WBTC(Uniswap) -> WBTC(Balancer)",
      profitEth |-> 100, gasCostEth |-> 30, status |-> "Confirmed",
      opportunityId |-> 0]}

PostTransaction(transactionData) ==
    /\ Len(requests) < MaxRequests
    /\ requests' = Append(requests,
                          [pc |-> "insertTransaction",
                           transaction |-> transactionData,
                           currentStats |-> InitialBotStats])
    /\ UNCHANGED <<mevManager, store, loops, response, now, recorded, faults, executor>>

TransactionInsert(r) ==
    /\ requests[r].pc = "insertTransaction"
    /\ transactions' = addTransaction(transactions, requests[r].transaction)
    /\ SetRequest(r, [requests[r] EXCEPT !.pc = "getBotStats"])
    /\ UNCHANGED <<mevManager, opportunities, nextOpportunityId, mempoolActivity,
                   botStats, loops, response, now, recorded, faults, executor>>

TransactionGetBotStats(r) ==
    /\ requests[r].pc = "getBotStats"
    /\ SetRequest(r, [requests[r] EXCEPT !.pc = "updateBotStats",
                                         !.currentStats = botStats])
    /\ UNCHANGED <<mevManager, store, loops, response, now, recorded, faults, executor>>

TransactionUpdateBotStats(r) ==
    /\ requests[r].pc = "updateBotStats"
    /\ LET currentStats == requests[r].currentStats
           transaction == requests[r].transaction
           totalTransactions == currentStats.totalTransactions + 1
           successfulTxs == IF transaction.status = "Confirmed" THEN 1 ELSE 0
       IN  botStats' =
             [totalTransactions |-> totalTransactions,
              totalProfitEth |-> currentStats.totalProfitEth
                                   + transaction.profitEth,
              totalGasSpentEth |-> currentStats.totalGasSpentEth
                                     + transaction.gasCostEth,
              successRate |-> (currentStats.successRate * (totalTransactions - 1)
                                 + successfulTxs * 1000)
                                \div totalTransactions]
    /\ SetRequest(r, [requests[r] EXCEPT !.pc = "done"])
    /\ UNCHANGED <<mevManager, opportunities, nextOpportunityId, transactions,
                   mempoolActivity, loops, response, now, recorded, faults, executor>>

(* One run while clients post transactions of their own. *)
NextTransactions ==
    \/ NextRun
    \/ \E t \in PostedTransactions : PostTransaction(t)
    \/ \E r \in DOMAIN requests : TransactionInsert(r)
    \/ \E r \in DOMAIN requests : TransactionGetBotStats(r)
    \/ \E r \in DOMAIN requests : TransactionUpdateBotStats(r)

SpecTransactions == InitRun /\ [][NextTransactions]_vars

(* C28: when BotStats read-modify-write sequences interleave, no update is *)
(* lost: once the run has reached its target, its loop has returned and    *)
(* every POST /api/transactions request is answered, totalTransactions has *)
(* grown by the run's transactions plus one for each request.              *)
C28_NoLostUpdate ==
    ( /\ loops = EmptyBag
      /\ recorded # <<>>
      /\ mevManager.profit >= mevManager.targetProfit
      /\ \A r \in DOMAIN requests : requests[r].pc = "done" )
        => botStats.totalTransactions
             = InitialBotStats.totalTransactions
                 + mevManager.transactions + Len(requests)

----------------------------------------------------------------------------
(* A run that is never stopped: the loop's steps, each taken eventually    *)
(* once it is enabled (a pending store call returns, a timer fires), and   *)
(* status requests at any time.  The target is positive: absent (the       *)
(* default), minimal, exactly the amount of one or of two executions, or   *)
(* just above the amount of one.                                           *)
PositiveTargets ==
    {Undefined, Number(1), Number(265000), Number(265001), Number(530000)}

InitLive == \E t \in PositiveTargets : Started(t)

LoopSteps ==
    \/ \E l \in BagToSet(loops) : LoopGetOpportunities(l)
    \/ \E l \in BagToSet(loops) : LoopAddTransaction(l)
    \/ \E l \in BagToSet(loops) : LoopDeleteOpportunity(l)
    \/ \E l \in BagToSet(loops) : LoopAddMempoolActivity(l)
    \/ \E l \in BagToSet(loops) : LoopGenerate(l)
    \/ \E l \in BagToSet(loops) : LoopGenerateEmpty(l)
    \/ \E l \in BagToSet(loops) : LoopContinue(l)
    \/ \E l \in BagToSet(loops) : LoopGetBotStats(l)
    \/ \E l \in BagToSet(loops) : LoopUpdateBotStats(l)

NextLive ==
    \/ GetMevStatus
    \/ LoopSteps

SpecLive == InitLive /\ [][NextLive]_vars /\ WF_vars(LoopSteps)

(* C29: a run with a positive target that is never stopped and meets no    *)
(* fault eventually has isRunning = false with profit >= targetProfit.     *)
C29_TargetEventuallyReached ==
    <>( /\ ~mevManager.isRunning
        /\ mevManager.profit >= mevManager.targetProfit )

(* The run has ended with its target reached after two executions. *)
C29_Witness ==
    /\ ~mevManager.isRunning
    /\ mevManager.profit >= mevManager.targetProfit
    /\ mevManager.targetProfit > 0
    /\ mevManager.transactions = 2
    /\ loops = EmptyBag

-----------------------------------------------------------------------------
(* The browser's MevExecutor (client/src/lib/mev-executor.ts).  A call of  *)
(* start() is an invocation in executor.calls; each action is one of its   *)
(* continuations between two awaits.                                       *)

NewCall == [pc |-> "updateEthToGbpRate", bestOpportunity |-> NoOpportunity,
            request |-> 0]

SetCall(c, rec) ==
    [executor EXCEPT !.calls = Call(executor.calls (-) SetToBag({c}), rec)]

(* start() up to its first await (mev-executor.ts:65-75); the profit       *)
(* report is the one made by the constructor.                              *)
ExecutorStart ==
    /\ IF executor.isRunning
       THEN UNCHANGED executor
       ELSE /\ executor.started < MaxStarts
            /\ executor' = [executor EXCEPT !.isRunning = TRUE,
                                            !.ethToGbpRate = 2650,
                                            !.started = @ + 1,
                                            !.calls = Call(@, NewCall)]
    /\ UNCHANGED <<mevManager, store, loops, requests, response, now,
                   recorded, faults>>

(* stop() (mev-executor.ts:128-132) *)
ExecutorStop ==
    /\ executor' = [executor EXCEPT !.isRunning = FALSE]
    /\ UNCHANGED <<mevManager, store, loops, requests, response, now,
                   recorded, faults>>

(* The loop condition (mev-executor.ts:78), evaluated after the rate       *)
(* update and after each delay; when it is false start() returns the       *)
(* report (mev-executor.ts:124).                                           *)
ExecutorWhile(c) ==
    /\ c.pc \in {"updateEthToGbpRate", "delay"}
    /\ IF executor.isRunning /\ executor.totalProfitGBP < executor.targetProfitGBP
       THEN executor' = SetCall(c, [c EXCEPT !.pc = "scanForOpportunities"])
       ELSE executor' = SetCall(c, [c EXCEPT !.pc = "done"])
    /\ UNCHANGED <<mevManager, store, loops, requests, response, now,
                   recorded, faults>>

(* selectBestOpportunity (mev-executor.ts:170-182) *)
selectBestOpportunity(opps) ==
    IF opps = <<>> THEN NoOpportunity ELSE sort(opps)[1]

(* scanForOpportunities has answered (mev-executor.ts:81-88, 153-167): the *)
(* fetch succeeded or failed; the best opportunity, if any, is sent to     *)
(* POST /api/execute-opportunity/:id.                                      *)
ExecutorScan(c) ==
    /\ c.pc = "scanForOpportunities"
    /\ \E ok \in BOOLEAN :
         LET found == IF ok THEN executable(opportunities) ELSE <<>>
             bestOpportunity == selectBestOpportunity(found)
         IN  IF bestOpportunity = NoOpportunity
             THEN /\ executor' = SetCall(c, [c EXCEPT !.pc = "delay"])
                  /\ UNCHANGED requests
             ELSE /\ Len(requests) < MaxRequests
                  /\ requests' = Append(requests,
                         [pc |-> "getOpportunities", id |-> bestOpportunity.id,
                          opportunity |-> NoOpportunity, status |-> 0])
                  /\ executor' = SetCall(c,
                         [c EXCEPT !.pc = "executeOpportunity",
                                   !.bestOpportunity = bestOpportunity,
                                   !.request = Len(requests) + 1])
    /\ UNCHANGED <<mevManager, store, loops, response, now, recorded, faults>>

(* executeOpportunity has answered (mev-executor.ts:88-98, 185-210).  A    *)
(* request the server refused gives success = false.  What apiRequest      *)
(* hands back for an accepted one is decided in lib/queryClient: with the  *)
(* parsed body the result carries the transaction's profit, with anything  *)
(* else reading response.transaction.txHash throws and success = false.    *)
ExecutorExecuted(c) ==
    /\ c.pc = "executeOpportunity"
    /\ requests[c.request].pc = "done"
    /\ \E parsed \in BOOLEAN :
         LET success == parsed /\ requests[c.request].status = 200
             profitEth == InsertTransaction(requests[c.request].opportunity).profitEth
             totalProfitETH == executor.totalProfitETH + profitEth
         IN  IF success
             THEN executor' =
                    [SetCall(c, [c EXCEPT !.pc = "recordTransaction"])
                       EXCEPT !.totalProfitETH = totalProfitETH,
                              !.totalProfitGBP = totalProfitETH * executor.ethToGbpRate,
                              !.transactions = @ + 1]
             ELSE executor' = SetCall(c, [c EXCEPT !.pc = "delay"])
    /\ UNCHANGED <<mevManager, store, loops, requests, response, now,
                   recorded, faults>>

(* recordTransaction has answered (mev-executor.ts:104-111, 213-228): POST *)
(* /api/bot-stats (routes.ts:497-505) stored the totals or failed; then    *)
(* the target is compared, and when it is reached stop() is called and     *)
(* start() returns.                                                        *)
ExecutorRecorded(c) ==
    /\ c.pc = "recordTransaction"
    /\ \E ok \in BOOLEAN :
         IF ok
         THEN botStats' = [botStats EXCEPT
                              !.totalProfitEth = executor.totalProfitETH,
                              !.totalTransactions = executor.transactions,
                              !.successRate = 1000]
         ELSE UNCHANGED botStats
    /\ IF executor.totalProfitGBP >= executor.targetProfitGBP
       THEN executor' = [SetCall(c, [c EXCEPT !.pc = "done"])
                            EXCEPT !.isRunning = FALSE]
       ELSE executor' = SetCall(c, [c EXCEPT !.pc = "delay"])
    /\ UNCHANGED <<mevManager, opportunities, nextOpportunityId, transactions,
                   mempoolActivity, loops, requests, response, now, recorded,
                   faults>>

(* The executor in a browser, against a server whose automated run is not  *)
(* started and whose opportunities are inserted by clients.                *)
NextClient ==
    \/ \E o \in GeneratedOpportunities : PostOpportunity(o)
    \/ ExecutorStart
    \/ ExecutorStop
    \/ \E c \in BagToSet(executor.calls) : ExecutorWhile(c)
    \/ \E c \in BagToSet(executor.calls) : ExecutorScan(c)
    \/ \E c \in BagToSet(executor.calls) : ExecutorExecuted(c)
    \/ \E c \in BagToSet(executor.calls) : ExecutorRecorded(c)
    \/ \E r \in DOMAIN requests : ExecuteGetOpportunities(r)
    \/ \E r \in DOMAIN requests : ExecuteAddTransaction(r)
    \/ \E r \in DOMAIN requests : ExecuteDeleteOpportunity(r)
    \/ \E r \in DOMAIN requests : ExecuteAddMempoolActivity(r)

SpecClient == Init /\ [][NextClient]_vars

(* C30: the executor is never left with isRunning = true while no start()  *)
(* invocation is in flight, so that a later start() would be rejected as   *)
(* already running although nothing runs.                                  *)
C30_RunningHasLoop ==
    executor.isRunning => executor.calls # EmptyBag

====
